---- MODULE Spec2Model ----
(***************************************************************************)
(* The SVN build-info module of unplugin-info.                             *)
(*                                                                         *)
(*   src/core/modules/svn.ts   BuildSvnModule.load                         *)
(*   src/core/utils/svn.ts     getSvnInfo and its queries and parsers      *)
(*   unnamed/part_000          a second revision of utils/svn.ts           *)
(*                                                                         *)
(* JavaScript strings are TLA+ strings, handled character by character     *)
(* with Len, SubSeq and \o.  A JavaScript value is a record [t, s, a]: t   *)
(* its type, s its characters when a string, a its elements when an array. *)
(***************************************************************************)
EXTENDS Integers, Sequences, FiniteSets, TLC

(***************************************************************************)
(* Strings                                                                 *)
(***************************************************************************)
Lowers == "abcdefghijklmnopqrstuvwxyz"
Uppers == "ABCDEFGHIJKLMNOPQRSTUVWXYZ"
Digits == "0123456789"

Ch(s, i) == SubSeq(s, i, i)

\* The characters of s from position i to the end.
From(s, i) == SubSeq(s, i, Len(s))

CharsOf(alphabet) == {Ch(alphabet, i) : i \in 1..Len(alphabet)}

LowerSet == CharsOf(Lowers)
UpperSet == CharsOf(Uppers)
DigitSet == CharsOf(Digits)
WordSet == LowerSet \cup UpperSet \cup DigitSet \cup {"_"}

LowerOf == [c \in UpperSet |-> Ch(Lowers, CHOOSE i \in 1..Len(Uppers) : Ch(Uppers, i) = c)]
UpperOf == [c \in LowerSet |-> Ch(Uppers, CHOOSE i \in 1..Len(Lowers) : Ch(Lowers, i) = c)]

\* \s of a regular expression, and what String.prototype.trim removes.
IsSpace(c) == c \in {" ", "\n", "\t", "\r"}

\* \d
IsDigit(c) == c \in DigitSet

\* [A-Z]
IsUpper(c) == c \in UpperSet

\* \w
IsWord(c) == c \in WordSet

toLowerCase(c) == IF c \in UpperSet THEN LowerOf[c] ELSE c

toUpperCase(c) == IF c \in LowerSet THEN UpperOf[c] ELSE c

\* Whether sub occurs in s at position i.
At(s, i, sub) == i >= 1 /\ i + Len(sub) - 1 <= Len(s) /\ SubSeq(s, i, i + Len(sub) - 1) = sub

\* String.prototype.indexOf(sub, from), 1-based; 0 when there is none.
indexOf(s, sub, from) ==
  LET hits == {i \in from..(Len(s) - Len(sub) + 1) : At(s, i, sub)}
  IN  IF hits = {} THEN 0 ELSE CHOOSE i \in hits : \A j \in hits : i <= j

includes(s, sub) == indexOf(s, sub, 1) # 0

endsWith(s, sub) == Len(sub) <= Len(s) /\ At(s, Len(s) - Len(sub) + 1, sub)

startsWith(s, sub) == At(s, 1, sub)

\* The first position at or after i whose character is not white space
\* (Len(s) + 1 when there is none): where a greedy \s* or \s+ stops.
RECURSIVE skipSpace(_, _)
skipSpace(s, i) == IF i <= Len(s) /\ IsSpace(Ch(s, i)) THEN skipSpace(s, i + 1) ELSE i

\* The last position at or before i whose character is not white space (0
\* when there is none).
RECURSIVE skipSpaceBack(_, _)
skipSpaceBack(s, i) == IF i >= 1 /\ IsSpace(Ch(s, i)) THEN skipSpaceBack(s, i - 1) ELSE i

\* String.prototype.trim
trim(s) == SubSeq(s, skipSpace(s, 1), skipSpaceBack(s, Len(s)))

\* String.prototype.split(sep) for a separator of one character: the
\* pieces between the separators, of which cuts holds the positions.
split(s, sep) ==
  LET cuts == {i \in 1..Len(s) : Ch(s, i) = sep}
      start(k) == IF k = 1 THEN 1
                  ELSE 1 + CHOOSE i \in cuts : Cardinality({j \in cuts : j <= i}) = k - 1
      stop(k) == IF k = Cardinality(cuts) + 1 THEN Len(s)
                 ELSE (CHOOSE i \in cuts : Cardinality({j \in cuts : j <= i}) = k) - 1
  IN  [k \in 1..(Cardinality(cuts) + 1) |-> SubSeq(s, start(k), stop(k))]

\* Array.prototype.join(sep)
RECURSIVE join(_, _)
join(parts, sep) ==
  IF parts = <<>> THEN ""
  ELSE IF Len(parts) = 1 THEN parts[1]
  ELSE parts[1] \o sep \o join(Tail(parts), sep)

\* The first position at or after i whose character is not a digit.
RECURSIVE skipDigits(_, _)
skipDigits(s, i) == IF i <= Len(s) /\ IsDigit(Ch(s, i)) THEN skipDigits(s, i + 1) ELSE i

(***************************************************************************)
(* JavaScript values                                                       *)
(***************************************************************************)
Undefined == [t |-> "undefined", s |-> "", a |-> <<>>]

Str(x) == [t |-> "string", s |-> x, a |-> <<>>]

Arr(q) == [t |-> "array", s |-> "", a |-> q]

\* ToBoolean of a value; an array is an object, which is truthy.
Truthy(v) == v.t = "array" \/ (v.t = "string" /\ v.s # "")

\* x || y
OrElse(x, y) == IF Truthy(x) THEN x ELSE y

\* A JavaScript object: a function from its keys to their values.
\* obj[key], which is undefined for a key the object does not have.
Get(obj, key) == IF key \in DOMAIN obj THEN obj[key] ELSE Undefined

EmptyObject == [k \in {} |-> Undefined]

\* obj[k1] || obj[k2] || ... || obj[kn]
RECURSIVE FirstTruthy(_, _)
FirstTruthy(obj, keys) ==
  IF Len(keys) = 1 THEN Get(obj, keys[1])
  ELSE OrElse(Get(obj, keys[1]), FirstTruthy(obj, Tail(keys)))

(***************************************************************************)
(* utils/svn.ts: toCamelCase and getSvnBasicInfo                           *)
(***************************************************************************)
\* str.replace(/(?:^\w|[A-Z]|\b\w)/g, (word, index) => ...): the character at
\* 0-based index i - 1 is replaced iff it starts the string as a word
\* character, is an upper-case letter, or is a word character after a
\* non-word one; the one at index 0 is lowered, every other one raised.
camelChar(str, i) ==
  LET c == Ch(str, i)
      hit == \/ (i = 1 /\ IsWord(c))
             \/ IsUpper(c)
             \/ (IsWord(c) /\ (i = 1 \/ ~IsWord(Ch(str, i - 1))))
  IN  IF ~hit THEN c ELSE IF i = 1 THEN toLowerCase(c) ELSE toUpperCase(c)

RECURSIVE camelFrom(_, _)
camelFrom(str, i) ==
  IF i > Len(str) THEN ""
  ELSE LET c == camelChar(str, i)
       IN  (IF IsSpace(c) THEN "" ELSE c) \o camelFrom(str, i + 1)

\* The second replace, /\s+/g by '', is folded into the walk: no replaced
\* character is white space.
toCamelCase(str) == camelFrom(str, 1)

\* line.match(/^([^:]+):\s*(.+)$/): the key is what precedes the first colon
\* and is not empty; after the colon \s* gives back white space until (.+)
\* holds at least one character and no line terminator up to the end.
lineMatch(line) ==
  LET groups(key, rest) ==
        IF /\ key # ""
           /\ \E j \in 0..(skipSpace(rest, 1) - 1) :
                 /\ j < Len(rest)
                 /\ \A k \in (j + 1)..Len(rest) : Ch(rest, k) \notin {"\n", "\r"}
        THEN [ok |-> TRUE, key |-> key, value |-> rest]
        ELSE [ok |-> FALSE, key |-> "", value |-> ""]
      at(c) == IF c = 0 THEN groups("", "")
               ELSE groups(SubSeq(line, 1, c - 1), From(line, c + 1))
  IN  at(indexOf(line, ":", 1))

\* The loop over the lines: info[toCamelCase(key.trim())] = value.trim(), a
\* later line overwriting an earlier one of the same key.
RECURSIVE infoOfLines(_, _)
infoOfLines(lines, info) ==
  LET assign(match) ==
        IF match.ok
        THEN (toCamelCase(trim(match.key)) :> Str(trim(match.value))) @@ info
        ELSE info
  IN  IF lines = <<>> THEN info
      ELSE infoOfLines(Tail(lines), assign(lineMatch(Head(lines))))

BasicInfoFields ==
  <<"url", "repositoryRoot", "repositoryUuid", "revision", "nodeKind",
    "lastChangedRev", "lastChangedDate", "lastChangedAuthor">>

AllUndefinedInfo == [k \in {BasicInfoFields[i] : i \in 1..Len(BasicInfoFields)} |-> Undefined]

\* utils/svn.ts
getSvnBasicInfo(output) ==
  LET fields(info) ==
        [url               |-> Get(info, "URL"),
         repositoryRoot    |-> Get(info, "Repository Root"),
         repositoryUuid    |-> Get(info, "Repository UUID"),
         revision          |-> Get(info, "Revision"),
         nodeKind          |-> Get(info, "Node Kind"),
         lastChangedRev    |-> Get(info, "Last Changed Rev"),
         lastChangedDate   |-> Get(info, "Last Changed Date"),
         lastChangedAuthor |-> Get(info, "Last Changed Author")]
  IN  fields(infoOfLines(split(output, "\n"), EmptyObject))

\* part_000
getSvnBasicInfo_part000(output) ==
  LET fields(info) ==
        [url               |-> FirstTruthy(info, <<"url", "URL">>),
         repositoryRoot    |-> FirstTruthy(info, <<"repositoryRoot", "repository root",
                                           "Repository Root">>),
         repositoryUuid    |-> FirstTruthy(info, <<"repositoryUuid", "repository uuid",
                                           "Repository UUID">>),
         revision          |-> FirstTruthy(info, <<"revision", "Revision", "revision">>),
         nodeKind          |-> FirstTruthy(info, <<"nodeKind", "node kind", "Node Kind">>),
         lastChangedRev    |-> FirstTruthy(info, <<"lastChangedRev", "last changed rev",
                                           "Last Changed Rev", "lastChangedRevision",
                                           "last changed revision">>),
         lastChangedDate   |-> FirstTruthy(info, <<"lastChangedDate", "last changed date",
                                           "Last Changed Date">>),
         lastChangedAuthor |-> FirstTruthy(info, <<"lastChangedAuthor", "last changed author",
                                           "Last Changed Author">>)]
  IN  IF output = "" THEN AllUndefinedInfo
      ELSE fields(infoOfLines(split(output, "\n"), EmptyObject))

(***************************************************************************)
(* utils/svn.ts: getBranchOrTag                                            *)
(***************************************************************************)
\* The end of a (.*) that starts at position i: the last position before
\* the next line terminator.
RECURSIVE lineEnd(_, _)
lineEnd(s, i) ==
  IF i > Len(s) \/ Ch(s, i) \in {"\n", "\r"} THEN i - 1 ELSE lineEnd(s, i + 1)

\* text.match(label + /\s+(.*)/): the first occurrence of the label that white
\* space follows; \s+ takes all of it, line breaks too, and (.*) the rest of
\* the line it stops in.
RECURSIVE labelMatchFrom(_, _, _)
labelMatchFrom(text, label, from) ==
  LET group(i, b) ==
        IF b = i + Len(label) THEN labelMatchFrom(text, label, i + 1)
        ELSE [ok |-> TRUE, group |-> SubSeq(text, b, lineEnd(text, b))]
      at(i) == IF i = 0 THEN [ok |-> FALSE, group |-> ""]
               ELSE group(i, skipSpace(text, i + Len(label)))
  IN  at(indexOf(text, label, from))

labelMatch(text, label) == labelMatchFrom(text, label, 1)

\* url.match(/\/branches\/([^\/]+)/), for either marker: the first occurrence
\* of the marker that a character other than "/" follows, and the characters
\* up to the next "/".
RECURSIVE markerMatchFrom(_, _, _)
markerMatchFrom(url, marker, from) ==
  LET group(b, e) ==
        [ok |-> TRUE, group |-> SubSeq(url, b, IF e = 0 THEN Len(url) ELSE e - 1)]
      at(i, b) ==
        IF i = 0 THEN [ok |-> FALSE, group |-> ""]
        ELSE IF b > Len(url) \/ Ch(url, b) = "/" THEN markerMatchFrom(url, marker, i + 1)
        ELSE group(b, indexOf(url, "/", b))
      found(i) == at(i, i + Len(marker))
  IN  found(indexOf(url, marker, from))

markerMatch(url, marker) == markerMatchFrom(url, marker, 1)

\* utils/svn.ts
getBranchOrTag(infoOutput) ==
  LET group(match, fallback) == IF match.ok THEN Str(match.group) ELSE fallback
      rules(url) ==
        IF includes(url, "/trunk/") THEN Str("trunk")
        ELSE IF includes(url, "/branches/")
             THEN group(markerMatch(url, "/branches/"), Undefined)
        ELSE IF includes(url, "/tags/")
             THEN group(markerMatch(url, "/tags/"), Undefined)
        ELSE Undefined
      of(urlMatch) == rules(IF urlMatch.ok THEN urlMatch.group ELSE "")
  IN  of(labelMatch(infoOutput, "URL:"))

\* part_000
getBranchOrTag_part000(infoOutput) ==
  LET group(match, fallback) == IF match.ok THEN Str(match.group) ELSE fallback
      last(parts) == parts[Len(parts)]
      branchDir(lastPart) ==
        IF lastPart # "" /\ lastPart # "trunk" /\ ~startsWith(lastPart, "tags")
        THEN Str(lastPart)
        ELSE Str("unknown")
      fromRoot(rootPathMatch) ==
        IF rootPathMatch.ok THEN branchDir(last(split(rootPathMatch.group, "/")))
        ELSE Str("unknown")
      rules(url) ==
        IF includes(url, "/trunk/") \/ endsWith(url, "/trunk") THEN Str("trunk")
        ELSE IF includes(url, "/branches/")
             THEN group(markerMatch(url, "/branches/"), Str("unknown-branch"))
        ELSE IF includes(url, "/tags/")
             THEN group(markerMatch(url, "/tags/"), Str("unknown-tag"))
        ELSE fromRoot(labelMatch(infoOutput, "Working Copy Root Path:"))
      of(urlMatch) == rules(IF urlMatch.ok THEN trim(urlMatch.group) ELSE "")
  IN  of(labelMatch(infoOutput, "URL:"))

(***************************************************************************)
(* utils/svn.ts: parseSvnXmlLog and parseSvnXmlLogs                        *)
(***************************************************************************)
NoMatch == [ok |-> FALSE, group |-> "", end |-> 0]

\* /<logentry[^>]*revision="(\d+)"[^>]*>/ tried at position i: the attribute
\* lies before the first ">" after the tag's name, and of several the greedy
\* [^>]* takes the last. end is the position after the ">".
entryTagAt(xml, i) ==
  LET name == "<logentry"
      attr == "revision=\""
      \* The attribute at r: its digits run from b to before e, a quote at e.
      quoted(b, e, gt) == e > b /\ e < gt /\ Ch(xml, e) = "\""
      attrAt(r, gt) ==
        At(xml, r, attr) /\ quoted(r + Len(attr), skipDigits(xml, r + Len(attr)), gt)
      group(b, gt) ==
        [ok |-> TRUE, group |-> SubSeq(xml, b, skipDigits(xml, b) - 1), end |-> gt + 1]
      last(hits, gt) ==
        IF hits = {} THEN NoMatch
        ELSE group((CHOOSE h \in hits : \A j \in hits : h >= j) + Len(attr), gt)
      tag(gt) ==
        IF gt = 0 THEN NoMatch
        ELSE last({r \in (i + Len(name))..(gt - Len(attr)) : attrAt(r, gt)}, gt)
  IN  IF ~At(xml, i, name) THEN NoMatch ELSE tag(indexOf(xml, ">", i + Len(name)))

\* The first position at or after from where the entry tag matches.
RECURSIVE entryTagFrom(_, _)
entryTagFrom(xml, from) ==
  LET try(i, match) == IF match.ok THEN match ELSE entryTagFrom(xml, i + 1)
      at(i) == IF i = 0 THEN NoMatch ELSE try(i, entryTagAt(xml, i))
  IN  IF from < 1 THEN NoMatch ELSE at(indexOf(xml, "<logentry", from))

\* /<author>([^<]+)<\/author>/ and the like, searched from position from:
\* the first opening tag whose text runs (over at least min characters, none
\* of them "<") up to its closing tag.
RECURSIVE elementFrom(_, _, _, _)
elementFrom(xml, name, min, from) ==
  LET open == "<" \o name \o ">"
      close == "</" \o name \o ">"
      \* The text from b to the next "<", at lt.
      text(i, b, lt) ==
        IF lt # 0 /\ lt - b >= min /\ At(xml, lt, close)
        THEN [ok |-> TRUE, group |-> SubSeq(xml, b, lt - 1), end |-> lt + Len(close)]
        ELSE elementFrom(xml, name, min, i + 1)
      at(i) == IF i = 0 THEN NoMatch
               ELSE text(i, i + Len(open), indexOf(xml, "<", i + Len(open)))
  IN  IF from < 1 THEN NoMatch ELSE at(indexOf(xml, open, from))

\* null is the record whose ok is FALSE.
parseSvnXmlLog(xml) ==
  LET entry(entryMatch) ==
        [ok |-> entryMatch.ok,
         revision |-> entryMatch.group,
         author |-> elementFrom(xml, "author", 1, 1).group,
         date |-> elementFrom(xml, "date", 1, 1).group,
         msg |-> elementFrom(xml, "msg", 0, 1).group]
  IN  entry(entryTagFrom(xml, 1))

\* One regex.exec of parseSvnXmlLogs from lastIndex: the entry tag, then each
\* lazy [\s\S]*? runs to the first place where what follows it matches.
\* Where the match fails from one entry tag it fails from every later one,
\* each part being searched to the end of the text.
logsExec(xml, lastIndex) ==
  LET matched(entry, author, date, msg, closing) ==
        [ok |-> entry.ok /\ author.ok /\ date.ok /\ msg.ok /\ closing # 0,
         entry |-> [revision |-> entry.group, author |-> author.group,
                    date |-> date.group, msg |-> msg.group],
         lastIndex |-> closing + Len("</logentry>")]
      afterMsg(entry, author, date, msg) ==
        matched(entry, author, date, msg,
                IF msg.ok THEN indexOf(xml, "</logentry>", msg.end) ELSE 0)
      afterDate(entry, author, date) ==
        afterMsg(entry, author, date, elementFrom(xml, "msg", 0, date.end))
      afterAuthor(entry, author) ==
        afterDate(entry, author, elementFrom(xml, "date", 1, author.end))
      afterEntry(entry) ==
        afterAuthor(entry, elementFrom(xml, "author", 1, entry.end))
  IN  afterEntry(entryTagFrom(xml, lastIndex))

RECURSIVE logsLoop(_, _, _)
logsLoop(xml, lastIndex, entries) ==
  LET push(match) ==
        IF ~match.ok THEN entries
        ELSE logsLoop(xml, match.lastIndex, Append(entries, match.entry))
  IN  push(logsExec(xml, lastIndex))

parseSvnXmlLogs(xml) == logsLoop(xml, 1, <<>>)

(***************************************************************************)
(* utils/svn.ts: execSync, getLastCommit, getCommitLog                     *)
(***************************************************************************)
\* What promisify(exec) settles with: failed when the promise rejects (the
\* command cannot be started or exits non-zero), else stdout and stderr.
ExecResult(failed, stdout, stderr) == [failed |-> failed, stdout |-> stdout, stderr |-> stderr]

\* utils/svn.ts
execSync(res) == IF res.failed THEN "" ELSE trim(res.stdout)

\* part_000: output on stderr empties the result, whatever the exit code.
execSync_part000(res) ==
  IF res.failed THEN ""
  ELSE IF trim(res.stderr) # "" THEN ""
  ELSE trim(res.stdout)

\* logEntry?.revision and the like: undefined when parseSvnXmlLog gave null.
getLastCommit(output) ==
  LET fields(logEntry) ==
        IF logEntry.ok
        THEN [sha            |-> Str(logEntry.revision),
              abbreviatedSha |-> Str(logEntry.revision),
              commitMessage  |-> Str(logEntry.msg),
              author         |-> Str(logEntry.author),
              authorDate     |-> Str(logEntry.date),
              authorEmail    |-> Undefined]
        ELSE [sha            |-> Undefined,
              abbreviatedSha |-> Undefined,
              commitMessage  |-> Undefined,
              author         |-> Undefined,
              authorDate     |-> Undefined,
              authorEmail    |-> Undefined]
  IN  fields(parseSvnXmlLog(output))

\* getCommitLog with no tags for an empty log.
getCommitLogNoTags(logs, lastTag) ==
  [branch   |-> OrElse(lastTag, Undefined),
   tag      |-> OrElse(lastTag, Undefined),
   tags     |-> IF logs = <<>> THEN Undefined
                ELSE Arr([i \in 1..Len(logs) |-> logs[i].revision]),
   lastTag  |-> OrElse(lastTag, Undefined),
   describe |-> Str("r" \o (IF logs # <<>> THEN logs[1].revision ELSE ""))]

\* What getCommitLog returns, with logs what parseSvnXmlLogs made of the
\* command's output and lastTag what getBranchOrTag returned.
getCommitLog(logs, lastTag) ==
  [branch   |-> OrElse(lastTag, Undefined),
   tag      |-> OrElse(lastTag, Undefined),
   tags     |-> Arr([i \in 1..Len(logs) |-> logs[i].revision]),
   lastTag  |-> OrElse(lastTag, Undefined),
   describe |-> Str("r" \o (IF logs # <<>> THEN logs[1].revision ELSE ""))]

(***************************************************************************)
(* modules/svn.ts: the key list and the generated text                     *)
(***************************************************************************)
FixedKeys ==
  <<"url", "repositoryRoot", "repositoryUuid", "revision", "nodeKind",
    "lastChangedRev", "lastChangedDate", "lastChangedAuthor", "sha",
    "abbreviatedSha", "commitMessage", "author", "authorDate", "authorEmail",
    "branch", "tag", "tags", "lastTag", "describe">>

Range(q) == {q[i] : i \in 1..Len(q)}

\* setSpread without the Set: every value is kept, a repeated one too.
setSpreadAll(list, seen) == seen \o list

\* [...new Set(list)]: a Set keeps each value once, at the place of its first
\* insertion.
RECURSIVE setSpread(_, _)
setSpread(list, seen) ==
  IF list = <<>> THEN seen
  ELSE setSpread(Tail(list),
         IF Head(list) \in Range(seen) THEN seen ELSE Append(seen, Head(list)))

\* Object.keys(options?.svn ?? {}): the extractors' keys in the map's order.
ObjectKeys(extra) == [i \in 1..Len(extra) |-> extra[i].key]

KeyList(extra) == setSpread(FixedKeys \o ObjectKeys(extra), <<>>)

\* JSON.stringify of a string: quoted, with the quote, the backslash and the
\* line break escaped.
RECURSIVE jsonEscape(_)
jsonEscape(str) ==
  IF str = "" THEN ""
  ELSE LET c == Ch(str, 1)
       IN  (CASE c = "\"" -> "\\\""
              [] c = "\\" -> "\\\\"
              [] c = "\n" -> "\\n"
              [] OTHER -> c) \o jsonEscape(From(str, 2))

jsonQuote(str) == "\"" \o jsonEscape(str) \o "\""

\* JSON.stringify(value): undefined for undefined, not a string.
JSONstringify(v) ==
  CASE v.t = "string" -> Str(jsonQuote(v.s))
    [] v.t = "array" -> Str("[" \o join([i \in 1..Len(v.a) |-> jsonQuote(v.a[i])], ",") \o "]")
    [] OTHER -> Undefined

\* `${value}` in a template literal: String(undefined) is "undefined".
TemplateString(v) == IF v.t = "undefined" THEN "undefined" ELSE v.s

\* gen(key), with info the record, if hasInfo.
gen(key, hasInfo, info) ==
  "export const " \o key \o " = "
    \o (IF hasInfo THEN TemplateString(JSONstringify(Get(info, key))) ELSE "null")

\* load after getSvnInfo has returned: the warning, the keys, the text.
loadTail(hasInfo, info, extra) ==
  LET result(keys) ==
        [warned |-> IF hasInfo THEN 0 ELSE 1,
         keys |-> keys,
         text |-> join([i \in 1..Len(keys) |-> gen(keys[i], hasInfo, info)], "\n")]
  IN  result(KeyList(extra))

(***************************************************************************)
(* The svn executable, as the code sees it through exec                    *)
(***************************************************************************)
\* 'svn --version': answered by svn, answered by another program of that
\* name, or not to be started.
svnVersion(mode) ==
  CASE mode = "svn" -> ExecResult(FALSE, "svn, version 1.14.2 (r1899510)\n", "")
    [] mode = "other" -> ExecResult(FALSE, "Apache Subversion wrapper\n", "")
    [] OTHER -> ExecResult(TRUE, "", "sh: svn: not found\n")

\* A command that ran well ("ok"), ran well and warned on stderr ("stderr"),
\* or failed ("fail").
svnRun(mode, stdout) ==
  CASE mode = "ok" -> ExecResult(FALSE, stdout, "")
    [] mode = "stderr" -> ExecResult(FALSE, stdout, "svn: warning: W155010\n")
    [] OTHER -> ExecResult(TRUE, "", "svn: E155007: not a working copy\n")

\* The text of 'svn info': one "Label: value" line per pair.
svnInfoText(lines) ==
  join([i \in 1..Len(lines) |-> lines[i].label \o ": " \o lines[i].value], "\n") \o "\n"

\* One <logentry> of 'svn log --xml'; svn leaves out the element of a field
\* the revision does not have.
logEntryXml(e) ==
  "<logentry\n   revision=\"" \o e.revision \o "\">\n"
    \o (IF e.author.t = "string" THEN "<author>" \o e.author.s \o "</author>\n" ELSE "")
    \o (IF e.date.t = "string" THEN "<date>" \o e.date.s \o "</date>\n" ELSE "")
    \o (IF e.msg.t = "string" THEN "<msg>" \o e.msg.s \o "</msg>\n" ELSE "")
    \o "</logentry>\n"

\* The text of 'svn log -l limit --xml' for the revisions, newest first.
svnLogText(entries, limit) ==
  LET n == IF Len(entries) < limit THEN Len(entries) ELSE limit
  IN  "<?xml version=\"1.0\" encoding=\"UTF-8\"?>\n<log>\n"
        \o join([i \in 1..n |-> logEntryXml(entries[i])], "")
        \o "</log>\n"

LastCommitLimit == 1
CommitLogLimit == 10

(***************************************************************************)
(* Working copies, tools and options                                       *)
(***************************************************************************)
Impls == {"utils/svn.ts", "part_000"}

Line(label, value) == [label |-> label, value |-> value]

\* The 'svn info' lines of a working copy at rootPath checked out from url,
\* its Last Changed Rev line labelled revLabel.
InfoLines(url, rootPath, revLabel) ==
  <<Line("Path", "."),
    Line("Working Copy Root Path", rootPath),
    Line("URL", url),
    Line("Relative URL", "^/"),
    Line("Repository Root", "https://host/repo"),
    Line("Repository UUID", "6a1b-42"),
    Line("Revision", "43"),
    Line("Node Kind", "directory"),
    Line("Last Changed Author", "bob"),
    Line(revLabel, "42"),
    Line("Last Changed Date", "2024-01-02 03:04:05 +0000")>>

Urls ==
  {"https://host/repo/trunk", "https://host/repo/trunk/app",
   "https://host/repo/branches/feature-x", "https://host/repo/branches/feature-x/app",
   "https://host/repo/tags/v1.0", "https://host/repo/main",
   "https://host/repo/branches/"}

RootPaths == {"/home/u/mywork", "/home/u/trunk", "/home/u/tags-old"}

RevLabels == {"Last Changed Rev", "last changed rev", "last changed revision"}

\* The working copy of a feature branch.
BranchCopy(revLabel) ==
  InfoLines("https://host/repo/branches/feature-x", "/home/u/mywork", revLabel)

\* Every URL at every root path, and the branch under every label.
WcInfos ==
  {InfoLines(u, r, "Last Changed Rev") : u \in Urls, r \in RootPaths}
    \cup {BranchCopy(l) : l \in RevLabels}

\* The revision at place i of a log, newest first: "7", "6", "5", ...
RevisionAt(i) == Ch("7654321", i)

\* A log entry of the given revision; has names the elements it carries.
LogEntry(revision, has) ==
  [revision |-> revision,
   author |-> IF "author" \in has THEN Str("a" \o revision) ELSE Undefined,
   date |-> IF "date" \in has THEN Str("2024-01-0" \o revision) ELSE Undefined,
   msg |-> IF "msg" \in has THEN Str("fix " \o revision) ELSE Undefined]

AllFields == {"author", "date", "msg"}

Shapes == {AllFields} \cup {AllFields \ {f} : f \in AllFields}

MaxEntries == 3

\* Every log of at most MaxEntries entries, each lacking at most one element.
Logs ==
  UNION {{[i \in 1..n |-> LogEntry(RevisionAt(i), shape[i])] : shape \in [1..n -> Shapes]}
           : n \in 0..MaxEntries}

FullLog(n) == [i \in 1..n |-> LogEntry(RevisionAt(i), AllFields)]

Extractor(key, returns, throws) == [key |-> key, returns |-> returns, throws |-> throws]

\* options.svn: none, a new key, a fixed key overridden, an extractor that
\* throws, alone or after one that does not.
Extras ==
  {<<>>,
   <<Extractor("buildTime", Str("noon"), FALSE)>>,
   <<Extractor("tags", Str("v1"), FALSE), Extractor("zeta", Undefined, FALSE)>>,
   <<Extractor("zeta", Str("z"), FALSE), Extractor("url", Str("override"), FALSE),
     Extractor("alpha", Str("say \"hi\""), FALSE)>>,
   <<Extractor("boom", Undefined, TRUE)>>,
   <<Extractor("buildTime", Str("noon"), FALSE), Extractor("sha", Undefined, TRUE)>>}

RunModes == {"ok", "stderr", "fail"}

VersionModes == {"svn", "other", "missing"}

(***************************************************************************)
(* The queries' answers, computed once for each revision of utils/svn.ts,  *)
(* each way the command can run and each working copy                      *)
(***************************************************************************)
execSyncOf(i, res) == IF i = "utils/svn.ts" THEN execSync(res) ELSE execSync_part000(res)

Queries(modes, copies) == {<<i, m, w>> : i \in Impls, m \in modes, w \in copies}

\* 'svn info': what execSync resolves with, and what getSvnBasicInfo and
\* getBranchOrTag make of it.
InfoQuery ==
  LET answer(i, output) ==
        [output |-> output,
         info |-> IF i = "utils/svn.ts" THEN getSvnBasicInfo(output)
                  ELSE getSvnBasicInfo_part000(output),
         lastTag |-> IF i = "utils/svn.ts" THEN getBranchOrTag(output)
                     ELSE getBranchOrTag_part000(output)]
  IN  [q \in Queries(RunModes, {BranchCopy("Last Changed Rev")}) \cup Queries({"ok"}, WcInfos)
         |-> answer(q[1], execSyncOf(q[1], svnRun(q[2], svnInfoText(q[3]))))]

\* 'svn log -l 1 --xml' and 'svn log -l 10 --xml': what getLastCommit
\* returns, and what parseSvnXmlLogs returns to getCommitLog.
LogQuery ==
  [q \in Queries(RunModes, {FullLog(0), FullLog(2)}) \cup Queries({"ok"}, Logs) |->
     [lastCommit |->
        getLastCommit(execSyncOf(q[1], svnRun(q[2], svnLogText(q[3], LastCommitLimit)))),
      logs |->
        parseSvnXmlLogs(execSyncOf(q[1], svnRun(q[2], svnLogText(q[3], CommitLogLimit))))]]

(***************************************************************************)
(* State                                                                   *)
(***************************************************************************)
VARIABLES
  impl,                   \* the revision of utils/svn.ts in use
  tool,                   \* how the svn executable behaves: [version, info, log]
  wc,                     \* the directory root: [dotSvn, info, log]
  extra,                  \* options.svn: the extractors, in the map's order
  isSvnInstalledPromise,  \* "pending", "true" or "false"
  versionCalls,           \* executions of 'svn --version'
  execCalls,              \* executions of 'svn info' and 'svn log'
  calls                   \* the calls of BuildSvnModule.load

vars == <<impl, tool, wc, extra, isSvnInstalledPromise, versionCalls, execCalls, calls>>

env == <<impl, tool, wc, extra>>

MaxCalls == 2

IdleCall ==
  [pc |-> "idle", saw |-> "none", logStep |-> "idle", outcome |-> "pending",
   hasInfo |-> FALSE, info |-> EmptyObject, warned |-> 0, keys |-> <<>>, text |-> ""]

(***************************************************************************)
(* The queries of this revision, tool and working copy                     *)
(***************************************************************************)
InfoAnswer == InfoQuery[<<impl, tool.info, wc.info>>]

LogAnswer == LogQuery[<<impl, tool.log, wc.log>>]

(***************************************************************************)
(* utils/svn.ts: checkSvnAvailable, getSvnInfo                             *)
(***************************************************************************)
checkSvnAvailable(res) == IF res.failed THEN FALSE ELSE includes(res.stdout, "svn")

\* The module-level promise settles.
ProbeSettles ==
  /\ isSvnInstalledPromise = "pending"
  /\ isSvnInstalledPromise' =
       IF checkSvnAvailable(svnVersion(tool.version)) THEN "true" ELSE "false"
  /\ UNCHANGED <<env, versionCalls, execCalls, calls>>

\* load returns: getSvnInfo gave info (a record, if hasInfo).
Returned(call, hasInfo, info) ==
  LET result(tail) ==
        [call EXCEPT !.pc = "done", !.outcome = "returned", !.hasInfo = hasInfo,
                     !.info = info, !.warned = tail.warned, !.keys = tail.keys,
                     !.text = tail.text]
  IN  result(loadTail(hasInfo, info, extra))

\* getSvnInfo without its catch: the rejection reaches load, which rejects.
Uncaught(call) == [call EXCEPT !.pc = "done", !.outcome = "rejected"]

\* The catch of getSvnInfo: the error is logged, undefined returned.
Caught(call) == Returned(call, FALSE, EmptyObject)

\* The four tasks of Promise.all start: the three commands are spawned and
\* every extractor is called.
Gathering(call) == [call EXCEPT !.pc = "gather", !.logStep = "svnLog"]

\* Begin with getSvnInfo probing by itself: await checkSvnAvailable().
BeginProbing(c) ==
  /\ calls[c].pc = "idle"
  /\ calls' = [calls EXCEPT ![c].pc = "awaitInstalled"]
  /\ versionCalls' = versionCalls + 1
  /\ UNCHANGED <<env, isSvnInstalledPromise, execCalls>>

\* load calls getSvnInfo, which awaits the module-level promise.
Begin(c) ==
  /\ calls[c].pc = "idle"
  /\ calls' = [calls EXCEPT ![c].pc = "awaitInstalled"]
  /\ UNCHANGED <<env, isSvnInstalledPromise, versionCalls, execCalls>>

\* Resume without the test of isSvnInstalled.
ResumeUntested(c) ==
  /\ calls[c].pc = "awaitInstalled"
  /\ isSvnInstalledPromise # "pending"
  /\ LET call == [calls[c] EXCEPT !.saw = isSvnInstalledPromise]
     IN  IF wc.dotSvn
         THEN /\ calls' = [calls EXCEPT ![c] = Gathering(call)]
              /\ execCalls' = execCalls + 3
         ELSE /\ calls' = [calls EXCEPT ![c] = [call EXCEPT !.pc = "isSvnRepo"]]
              /\ execCalls' = execCalls + 1
  /\ UNCHANGED <<env, isSvnInstalledPromise, versionCalls>>

\* getSvnInfo resumes with isSvnInstalled, and enters isSvnRepo if it is
\* true: a .svn directory answers at once, else 'svn info' is run.
Resume(c) ==
  /\ calls[c].pc = "awaitInstalled"
  /\ isSvnInstalledPromise # "pending"
  /\ LET call == [calls[c] EXCEPT !.saw = isSvnInstalledPromise]
     IN  IF isSvnInstalledPromise = "false"
         THEN /\ calls' = [calls EXCEPT ![c] = Returned(call, FALSE, EmptyObject)]
              /\ UNCHANGED execCalls
         ELSE IF wc.dotSvn
         THEN /\ calls' = [calls EXCEPT ![c] = Gathering(call)]
              /\ execCalls' = execCalls + 3
         ELSE /\ calls' = [calls EXCEPT ![c] = [call EXCEPT !.pc = "isSvnRepo"]]
              /\ execCalls' = execCalls + 1
  /\ UNCHANGED <<env, isSvnInstalledPromise, versionCalls>>

\* isSvnRepo returns !!output of its 'svn info'.
RepoAnswer(c) ==
  /\ calls[c].pc = "isSvnRepo"
  /\ IF InfoAnswer.output = ""
     THEN /\ calls' = [calls EXCEPT ![c] = Returned(calls[c], FALSE, EmptyObject)]
          /\ UNCHANGED execCalls
     ELSE /\ calls' = [calls EXCEPT ![c] = Gathering(calls[c])]
          /\ execCalls' = execCalls + 3
  /\ UNCHANGED <<env, isSvnInstalledPromise, versionCalls>>

\* getCommitLog has its log and calls getBranchOrTag, which runs 'svn info';
\* it does so too when getSvnInfo has returned on a rejection meanwhile.
CommitLogResumes(c) ==
  /\ calls[c].logStep = "svnLog"
  /\ calls' = [calls EXCEPT ![c].logStep = "svnInfo"]
  /\ execCalls' = execCalls + 1
  /\ UNCHANGED <<env, isSvnInstalledPromise, versionCalls>>

\* Object.fromEntries(extraResult)
ExtraObject == [k \in Range(ObjectKeys(extra)) |->
                 (CHOOSE e \in Range(extra) : e.key = k).returns]

\* { ...info, ...lastCommit, ...log, ...Object.fromEntries(extraResult) }
Merged ==
  ExtraObject
    @@ getCommitLog(LogAnswer.logs, InfoAnswer.lastTag)
    @@ LogAnswer.lastCommit
    @@ InfoAnswer.info

SomeExtractorThrows == \E e \in Range(extra) : e.throws

\* await Promise.all([...]) settles: it rejects as soon as an extractor has
\* thrown, and resolves once all four tasks have.
PromiseAllSettles(c) ==
  /\ calls[c].pc = "gather"
  /\ IF SomeExtractorThrows
     THEN calls' = [calls EXCEPT ![c] = Caught(calls[c])]
     ELSE /\ calls[c].logStep = "svnInfo"
          /\ calls' = [calls EXCEPT ![c] = Returned(calls[c], TRUE, Merged)]
  /\ UNCHANGED <<env, isSvnInstalledPromise, versionCalls, execCalls>>

Next ==
  \/ ProbeSettles
  \/ \E c \in DOMAIN calls : Begin(c)
  \/ \E c \in DOMAIN calls : Resume(c)
  \/ \E c \in DOMAIN calls : RepoAnswer(c)
  \/ \E c \in DOMAIN calls : CommitLogResumes(c)
  \/ \E c \in DOMAIN calls : PromiseAllSettles(c)

\* The module is loaded: checkSvnAvailable has run 'svn --version' and its
\* promise is pending; no load has been called.
Loaded(n) ==
  /\ isSvnInstalledPromise = "pending"
  /\ versionCalls = 1
  /\ execCalls = 0
  /\ calls = [c \in 1..n |-> IdleCall]

\* Every tool behaviour and every option map, on two working copies.
Init ==
  /\ impl \in Impls
  /\ tool \in [version : VersionModes, info : RunModes, log : RunModes]
  /\ wc \in [dotSvn : BOOLEAN,
             info : {BranchCopy("Last Changed Rev")},
             log : {FullLog(0), FullLog(2)}]
  /\ extra \in Extras
  /\ Loaded(MaxCalls)

Spec == Init /\ [][Next]_vars

\* Every working copy, with svn installed and its commands running well.
InitParsers ==
  /\ impl \in Impls
  /\ tool = [version |-> "svn", info |-> "ok", log |-> "ok"]
  /\ wc \in [dotSvn : BOOLEAN,
             info : WcInfos,
             log : Logs]
  /\ extra = <<>>
  /\ Loaded(1)

SpecParsers == InitParsers /\ [][Next]_vars

(***************************************************************************)
(* Derived predicates                                                      *)
(***************************************************************************)
Done(c) == calls[c].pc = "done"

\* load returned with a record.
Got(c) == Done(c) /\ calls[c].hasInfo

\* load has finished and getSvnInfo gave no record.
Absent(c) == Done(c) /\ ~calls[c].hasInfo

\* 'svn --version' answers as svn does.
Available == checkSvnAvailable(svnVersion(tool.version))

\* root holds a .svn directory or 'svn info' prints its lines there.
IsRepository == wc.dotSvn \/ InfoAnswer.output # ""

ExtraKeys == Range(ObjectKeys(extra))

\* The lines of the generated text.
Lines(c) == split(calls[c].text, "\n")

\* The key list as the specification words it: the fixed keys, then the
\* extractor keys that are not fixed keys, in the map's order.
KeysOf == [e \in Extras |->
             FixedKeys \o SelectSeq(ObjectKeys(e), LAMBDA k : k \notin Range(FixedKeys))]

\* The module of nulls for the key list.
NullsOf == [e \in Extras |->
              join([i \in 1..Len(KeysOf[e]) |-> "export const " \o KeysOf[e][i] \o " = null"],
                   "\n")]

\* What the three queries return, before the extractors' values are merged
\* over them.
BuiltIn ==
  getCommitLog(LogAnswer.logs, InfoAnswer.lastTag) @@ LogAnswer.lastCommit @@ InfoAnswer.info

(***************************************************************************)
(* C1: when the tool is available, root is a repository and the commands   *)
(* succeed, a throwing extractor does not take the record away: load still *)
(* has a record and its built-in fields carry the queries' values.         *)
(***************************************************************************)
C1_ExtractorFailureIsolated ==
  \A c \in DOMAIN calls :
    (Done(c) /\ Available /\ IsRepository /\ tool.info = "ok" /\ tool.log = "ok"
       /\ SomeExtractorThrows)
      => /\ calls[c].hasInfo
         /\ \A k \in Range(FixedKeys) \ ExtraKeys : Get(calls[c].info, k) = BuiltIn[k]

(***************************************************************************)
(* C2: with a record, the line of every key assigns the JSON encoding of   *)
(* the record's value, and the null literal where that value is undefined. *)
(***************************************************************************)
JsonOrNull(v) == IF v.t = "undefined" THEN "null" ELSE JSONstringify(v).s

C2_LinesAreJsonOrNull ==
  \A c \in DOMAIN calls :
    Got(c) =>
      /\ Len(Lines(c)) = Len(calls[c].keys)
      /\ \A i \in 1..Len(calls[c].keys) :
           Lines(c)[i] = "export const " \o calls[c].keys[i] \o " = "
                           \o JsonOrNull(Get(calls[c].info, calls[c].keys[i]))

(***************************************************************************)
(* C3: the key list load emits is the nineteen fixed keys in their order,  *)
(* then the extractor keys that are not fixed keys in the map's order, no  *)
(* key twice, with a record or without one.                                *)
(***************************************************************************)
C3_KeyListOrder ==
  \A c \in DOMAIN calls :
    Done(c) =>
      /\ Len(FixedKeys) = 19
      /\ calls[c].keys = KeysOf[extra]
      /\ \A i, j \in 1..Len(calls[c].keys) : calls[c].keys[i] = calls[c].keys[j] => i = j

\* A record was obtained under a map with a fixed key between two new ones.
C3_Witness ==
  \E c \in DOMAIN calls :
    /\ Got(c)
    /\ ObjectKeys(extra) = <<"zeta", "url", "alpha">>
    /\ calls[c].keys = FixedKeys \o <<"zeta", "alpha">>

(***************************************************************************)
(* C4: whenever getSvnInfo returns absent, load does not fail: it warns    *)
(* through ctx.warn and returns one line per key, each assigning null.     *)
(***************************************************************************)
C4_AbsentGivesNullModule ==
  \A c \in DOMAIN calls :
    /\ Done(c) => calls[c].outcome = "returned"
    /\ Absent(c) => calls[c].warned = 1 /\ calls[c].text = NullsOf[extra]

\* getSvnInfo returned absent on an internal failure: an extractor threw in
\* a repository, with svn available.
C4_Witness ==
  \E c \in DOMAIN calls :
    Absent(c) /\ calls[c].saw = "true" /\ IsRepository /\ SomeExtractorThrows

(***************************************************************************)
(* C5: when svn is reported unavailable, no 'svn info' or 'svn log' is     *)
(* ever run, isSvnRepo included, and every call returns absent.            *)
(***************************************************************************)
C5_UnavailableRunsNothing ==
  ~Available =>
    /\ execCalls = 0
    /\ \A c \in DOMAIN calls : Done(c) => ~calls[c].hasInfo

\* svn is unavailable, root holds a .svn directory and every call is over.
C5_Witness ==
  /\ isSvnInstalledPromise = "false"
  /\ wc.dotSvn
  /\ \A c \in DOMAIN calls : Absent(c)

(***************************************************************************)
(* C6: 'svn --version' is executed at most once in the life of the         *)
(* process, and every call of getSvnInfo observes the same availability.   *)
(***************************************************************************)
C6_ProbedOnce ==
  /\ versionCalls <= 1
  /\ \A c, d \in DOMAIN calls :
       (calls[c].saw # "none" /\ calls[d].saw # "none") => calls[c].saw = calls[d].saw

\* Several calls have resumed from the one probe.
C6_Witness ==
  /\ Cardinality(DOMAIN calls) >= 2
  /\ \A c \in DOMAIN calls : calls[c].saw # "none"
  /\ versionCalls = 1

(***************************************************************************)
(* C7, as stated: every record holds the nineteen fixed keys and its tags  *)
(* is an array, under every extractor map.                                 *)
(***************************************************************************)
C7_TagsAlwaysArray ==
  \A c \in DOMAIN calls :
    Got(c) =>
      /\ Range(FixedKeys) \subseteq DOMAIN calls[c].info
      /\ calls[c].info["tags"].t = "array"

(***************************************************************************)
(* C7, amended: every record holds the nineteen fixed keys; its tags is an *)
(* array unless the map has an extractor under tags, whose value it then   *)
(* is.                                                                     *)
(***************************************************************************)
C7_FixedKeysPresent ==
  \A c \in DOMAIN calls :
    Got(c) =>
      /\ Range(FixedKeys) \subseteq DOMAIN calls[c].info
      /\ "tags" \notin ExtraKeys => calls[c].info["tags"].t = "array"
      /\ "tags" \in ExtraKeys => calls[c].info["tags"] = ExtraObject["tags"]

\* A record of a working copy whose log command failed, under a map that
\* overrides another fixed key: tags is the empty array.
C7_Witness ==
  \E c \in DOMAIN calls :
    /\ Got(c)
    /\ tool.log = "fail"
    /\ "url" \in ExtraKeys
    /\ calls[c].info["tags"] = Arr(<<>>)

(***************************************************************************)
(* C8: each field of the basic-info query is the value on the line of its  *)
(* label; lastChangedRev under each of its three labels.                   *)
(***************************************************************************)
LabelsOf ==
  [url               |-> {"URL"},
   repositoryRoot    |-> {"Repository Root"},
   repositoryUuid    |-> {"Repository UUID"},
   revision          |-> {"Revision"},
   nodeKind          |-> {"Node Kind"},
   lastChangedRev    |-> RevLabels,
   lastChangedDate   |-> {"Last Changed Date"},
   lastChangedAuthor |-> {"Last Changed Author"}]

ValueOnLine(field) ==
  IF \E l \in Range(wc.info) : l.label \in LabelsOf[field]
  THEN Str((CHOOSE l \in Range(wc.info) : l.label \in LabelsOf[field]).value)
  ELSE Undefined

C8_BasicInfoFromLabels ==
  \A c \in DOMAIN calls :
    Got(c) => \A f \in Range(BasicInfoFields) : calls[c].info[f] = ValueOnLine(f)

(***************************************************************************)
(* C9: branch, tag and lastTag are the one value of the rules in order:    *)
(* "trunk" for a URL with a trunk segment, the name after a branches       *)
(* segment, the name after a tags segment, the last segment of the root    *)
(* path unless it is "trunk" or starts with "tags", else "unknown".        *)
(***************************************************************************)
\* The name after the first segment dir that a name follows, "" if none.
NameAfter(segments, dir) ==
  LET hits == {i \in 2..(Len(segments) - 1) : segments[i] = dir /\ segments[i + 1] # ""}
  IN  IF hits = {} THEN ""
      ELSE segments[(CHOOSE i \in hits : \A j \in hits : i <= j) + 1]

BranchRule(url, rootPath) ==
  LET segments == split(url, "/")
      rootParts == split(rootPath, "/")
      lastPart == rootParts[Len(rootParts)]
  IN  IF \E i \in 2..Len(segments) : segments[i] = "trunk" THEN "trunk"
      ELSE IF NameAfter(segments, "branches") # "" THEN NameAfter(segments, "branches")
      ELSE IF NameAfter(segments, "tags") # "" THEN NameAfter(segments, "tags")
      ELSE IF lastPart # "" /\ lastPart # "trunk" /\ ~startsWith(lastPart, "tags")
           THEN lastPart
      ELSE "unknown"

RuleOf == [w \in WcInfos |->
             LET url == (CHOOSE l \in Range(w) : l.label = "URL").value
                 rootPath == (CHOOSE l \in Range(w) : l.label = "Working Copy Root Path").value
             IN  Str(BranchRule(url, rootPath))]

C9_BranchRules ==
  \A c \in DOMAIN calls :
    Got(c) =>
      /\ calls[c].info["branch"] = RuleOf[wc.info]
      /\ calls[c].info["tag"] = RuleOf[wc.info]
      /\ calls[c].info["lastTag"] = RuleOf[wc.info]

(***************************************************************************)
(* C10: of a log of N entries, each of which may lack its author, date or  *)
(* msg, the parser returns the N entries in order, a missing field being   *)
(* the empty string; tags is the N revisions and describe "r" and the      *)
(* first of them.                                                          *)
(***************************************************************************)
TextOr(v) == IF v.t = "string" THEN v.s ELSE ""

EntriesOf == [log \in Logs \cup {FullLog(0), FullLog(2)} |->
                [i \in 1..Len(log) |->
                   [revision |-> log[i].revision, author |-> TextOr(log[i].author),
                    date |-> TextOr(log[i].date), msg |-> TextOr(log[i].msg)]]]

C10_LogEntriesInOrder ==
  \A c \in DOMAIN calls :
    Got(c) =>
      /\ LogAnswer.logs = EntriesOf[wc.log]
      /\ calls[c].info["tags"] = Arr([i \in 1..Len(wc.log) |-> wc.log[i].revision])
      /\ calls[c].info["describe"] =
           Str("r" \o (IF wc.log = <<>> THEN "" ELSE wc.log[1].revision))

====
